---------------------------- MODULE Spec2Model ----------------------------
(***************************************************************************)
(* Model of the mac_computer_use action dispatcher (tools/computer.py) and *)
(* of the MCP adapters that call it (mcp_server.py).                       *)
(*                                                                         *)
(* A string is a sequence of atoms.  An atom is a character ("a", "+",     *)
(* "'"), a decimal literal as f-string formatting prints it                *)
(* (ToString(12) = "12") or a word the code only ever compares as a whole  *)
(* ("cmd", "Return", "cliclick").  A command line is such a string, built  *)
(* the way the f-strings of the source build it.                           *)
(***************************************************************************)
EXTENDS Integers, Sequences, FiniteSets, TLC

-----------------------------------------------------------------------------
(* Bounds of the model *)

\* longest text handed to the type action
MaxTextLen == 120
\* requests that may be in flight at once in the concurrent specification
NumRequests == 2
\* largest cursor column the driver reports in the model, beyond the sampled ones
MaxProbe == 3

-----------------------------------------------------------------------------
(* Program constants *)

TYPING_DELAY_MS == 12
TYPING_GROUP_SIZE == 50
\* SCALE_DESTINATION = MAX_SCALING_TARGETS["FWXGA"]
SCALE_DESTINATION == [width |-> 1366, height |-> 768]
\* _screenshot_delay = 1.0
screenshot_delay == 1

-----------------------------------------------------------------------------
(* Optional values and strings *)

None == [some |-> FALSE, s |-> <<>>]
Some(s) == [some |-> TRUE, s |-> s]
\* Python's `v or ""` on an optional string
OrEmpty(v) == IF v.some THEN v.s ELSE <<>>

RECURSIVE Concat(_)
\* "".join(ss)
Concat(ss) == IF ss = <<>> THEN <<>> ELSE Head(ss) \o Concat(Tail(ss))

RECURSIVE Join(_, _)
\* sep.join(ss)
Join(ss, sep) ==
    IF ss = <<>> THEN <<>>
    ELSE IF Len(ss) = 1 THEN <<ss[1]>>
    ELSE <<ss[1], sep>> \o Join(Tail(ss), sep)

Contains(s, a) == \E i \in 1..Len(s) : s[i] = a

RECURSIVE split(_, _)
\* str.split(sep): the pieces between the occurrences of sep, empty ones kept
split(s, sep) ==
    IF ~Contains(s, sep) THEN <<s>>
    ELSE LET i == CHOOSE k \in 1..Len(s) :
                     s[k] = sep /\ \A j \in 1..(k - 1) : s[j] # sep
         IN  <<SubSeq(s, 1, i - 1)>> \o split(SubSeq(s, i + 1, Len(s)), sep)

RECURSIVE lstrip(_)
lstrip(s) == IF s # <<>> /\ Head(s) \in {" ", "\n"} THEN lstrip(Tail(s)) ELSE s
RECURSIVE rstrip(_)
rstrip(s) ==
    IF s # <<>> /\ s[Len(s)] \in {" ", "\n"}
    THEN rstrip(SubSeq(s, 1, Len(s) - 1)) ELSE s
\* str.strip()
strip(s) == rstrip(lstrip(s))

\* str.lower() on one atom: the upper-case atoms of the model and their images
LowerAtom(a) ==
    CASE a = "Return" -> "return"
      [] a = "Tab"    -> "tab"
      [] a = "Left"   -> "left"
      [] a = "Right"  -> "right"
      [] a = "Up"     -> "up"
      [] a = "Down"   -> "down"
      [] a = "Escape" -> "escape"
      [] a = "Space"  -> "space"
      [] a = "Cmd"    -> "cmd"
      [] a = "Shift"  -> "shift"
      [] a = "N"      -> "n"
      [] OTHER        -> a
\* str.lower()
lower(s) == [i \in 1..Len(s) |-> LowerAtom(s[i])]


-----------------------------------------------------------------------------
(* Pure helpers of tools/computer.py *)

\* chunks without the short last piece: range(0, len(s) - chunk_size + 1, chunk_size)
chunks_full_only(s, chunk_size) ==
    [k \in 1..(Len(s) \div chunk_size) |->
        SubSeq(s, (k - 1) * chunk_size + 1, k * chunk_size)]

\* chunks(s, chunk_size): s[i : i + chunk_size] for i in range(0, len(s), chunk_size)
chunks(s, chunk_size) ==
    [k \in 1..((Len(s) + chunk_size - 1) \div chunk_size) |->
        SubSeq(s, (k - 1) * chunk_size + 1,
               IF k * chunk_size < Len(s) THEN k * chunk_size ELSE Len(s))]

\* the characters shlex.quote leaves alone ([\w@%+=:,./-]), among the model's atoms
SafeChars == {"a", "b", "c", "n", "+", "-", ".", ","}

RECURSIVE EscapeQuotes(_)
\* s.replace("'", "'\"'\"'")
EscapeQuotes(s) ==
    IF s = <<>> THEN <<>>
    ELSE (IF Head(s) = "'" THEN <<"'", "\"", "'", "\"", "'">> ELSE <<Head(s)>>)
         \o EscapeQuotes(Tail(s))

\* shlex.quote(s)
shlex_quote(s) ==
    IF s = <<>> THEN <<"'", "'">>
    ELSE IF \A i \in 1..Len(s) : s[i] \in SafeChars THEN s
    ELSE <<"'">> \o EscapeQuotes(s) \o <<"'">>

\* base64.b64encode(bytes).decode(): the alphabet indices 0..63, 64 for the pad "="
RECURSIVE b64encode(_)
b64encode(b) ==
    IF b = <<>> THEN <<>>
    ELSE IF Len(b) = 1 THEN
        <<b[1] \div 4, (b[1] % 4) * 16, 64, 64>>
    ELSE IF Len(b) = 2 THEN
        <<b[1] \div 4, (b[1] % 4) * 16 + b[2] \div 16, (b[2] % 16) * 4, 64>>
    ELSE
        <<b[1] \div 4, (b[1] % 4) * 16 + b[2] \div 16,
          (b[2] % 16) * 4 + b[3] \div 64, b[3] % 64>>
        \o b64encode(SubSeq(b, 4, Len(b)))

\* round() of the non-negative quotient num / den.  Python rounds halves to even,
\* but the quotient is computed in floating point from a rounded scaling factor,
\* so at an exact half either neighbour may come out: both are returned.  Away
\* from a half the nearest integer is returned (the float error is far smaller
\* than the distance 1/(2*den) to the nearest half).
RoundSet(num, den) ==
    LET q == num \div den
        r == num % den
    IN  IF 2 * r < den THEN {q}
        ELSE IF 2 * r > den THEN {q + 1}
        ELSE {q, q + 1}

\* scale_coordinates with the API branch multiplying by the factor, as the other does
scale_coordinates_swapped(enabled, w, h, source, x, y) ==
    IF ~enabled THEN {[ok |-> TRUE, x |-> x, y |-> y]}
    ELSE IF source = "api"
            /\ (x > SCALE_DESTINATION.width \/ y > SCALE_DESTINATION.height)
    THEN {[ok |-> FALSE, x |-> x, y |-> y]}
    ELSE {[ok |-> TRUE, x |-> rx, y |-> ry] :
             rx \in RoundSet(x * SCALE_DESTINATION.width, w),
             ry \in RoundSet(y * SCALE_DESTINATION.height, h)}

\* scale_coordinates without the bounds check of the API branch
scale_coordinates_unbounded(enabled, w, h, source, x, y) ==
    IF ~enabled THEN {[ok |-> TRUE, x |-> x, y |-> y]}
    ELSE IF source = "api" THEN
        {[ok |-> TRUE, x |-> rx, y |-> ry] :
            rx \in RoundSet(x * w, SCALE_DESTINATION.width),
            ry \in RoundSet(y * h, SCALE_DESTINATION.height)}
    ELSE {[ok |-> TRUE, x |-> rx, y |-> ry] :
             rx \in RoundSet(x * SCALE_DESTINATION.width, w),
             ry \in RoundSet(y * SCALE_DESTINATION.height, h)}

\* ComputerTool.scale_coordinates: the set of outcomes of one call.
\* x_scaling_factor = SCALE_DESTINATION['width'] / self.width, so
\* x / x_scaling_factor = x * width / 1366 and x * x_scaling_factor = x * 1366 / width.
scale_coordinates(enabled, w, h, source, x, y) ==
    IF ~enabled THEN {[ok |-> TRUE, x |-> x, y |-> y]}
    ELSE IF source = "api" THEN
        IF x > SCALE_DESTINATION.width \/ y > SCALE_DESTINATION.height
        THEN {[ok |-> FALSE, x |-> x, y |-> y]}
        ELSE {[ok |-> TRUE, x |-> rx, y |-> ry] :
                 rx \in RoundSet(x * w, SCALE_DESTINATION.width),
                 ry \in RoundSet(y * h, SCALE_DESTINATION.height)}
    ELSE {[ok |-> TRUE, x |-> rx, y |-> ry] :
             rx \in RoundSet(x * SCALE_DESTINATION.width, w),
             ry \in RoundSet(y * SCALE_DESTINATION.height, h)}

-----------------------------------------------------------------------------
(* The key action's command *)

\* special_keys_map, as a function from its key names (one-atom strings) to codes
special_keys_map ==
    [k \in {"Return", "return", "enter", "space", "Tab", "tab", "Left", "left",
            "Right", "right", "Up", "up", "Down", "down", "Escape", "escape",
            "esc", "delete", "backspace", "home", "end", "pageup", "pagedown",
            "f1", "f2", "f3", "f4", "f5", "f6", "f7", "f8", "f9", "f10",
            "f11", "f12"} |->
        CASE k \in {"Return", "return", "enter"} -> "return"
          [] k \in {"Tab", "tab"}                -> "tab"
          [] k \in {"Left", "left"}              -> "arrow-left"
          [] k \in {"Right", "right"}            -> "arrow-right"
          [] k \in {"Up", "up"}                  -> "arrow-up"
          [] k \in {"Down", "down"}              -> "arrow-down"
          [] k \in {"Escape", "escape", "esc"}   -> "esc"
          [] k \in {"delete", "backspace"}       -> "delete"
          [] k = "pageup"                        -> "page-up"
          [] k = "pagedown"                      -> "page-down"
          [] OTHER                               -> k]

\* `s in special_keys_map` for a string s
InSpecialKeys(s) == Len(s) = 1 /\ s[1] \in DOMAIN special_keys_map

RECURSIVE cliclick_modifiers(_)
\* the loop over modifiers: the four known names are kept (command as cmd),
\* any other token is skipped
cliclick_modifiers(modifiers) ==
    IF modifiers = <<>> THEN <<>>
    ELSE LET mod == Head(modifiers)
             rest == cliclick_modifiers(Tail(modifiers))
         IN  IF mod \in {<<"cmd">>, <<"command">>} THEN <<"cmd">> \o rest
             ELSE IF mod = <<"ctrl">> THEN <<"ctrl">> \o rest
             ELSE IF mod = <<"alt">> THEN <<"alt">> \o rest
             ELSE IF mod = <<"shift">> THEN <<"shift">> \o rest
             ELSE rest

\* key_action for the target key of a combination
key_action(target_key) ==
    IF InSpecialKeys(lower(target_key))
    THEN <<"kp:", special_keys_map[lower(target_key)[1]]>>
    ELSE <<"t:">> \o target_key

\* key_cmd without the key-up of the modifiers
key_cmd_no_release(text) ==
    IF Contains(text, "+") THEN
        LET keys == split(text, "+")
            modifiers == [i \in 1..(Len(keys) - 1) |-> strip(keys[i])]
            target_key == strip(keys[Len(keys)])
            mods == cliclick_modifiers(modifiers)
        IN  IF mods # <<>>
            THEN <<"cliclick", " ", "kd:">> \o Join(mods, ",") \o <<" ">>
                 \o key_action(target_key)
            ELSE <<"cliclick", " ">> \o key_action(target_key)
    ELSE IF InSpecialKeys(lower(text))
         THEN <<"cliclick", " ", "kp:", special_keys_map[lower(text)[1]]>>
         ELSE <<"cliclick", " ", "t:">> \o text

\* the command line the key action builds from text
key_cmd(text) ==
    IF Contains(text, "+") THEN
        LET keys == split(text, "+")
            modifiers == [i \in 1..(Len(keys) - 1) |-> strip(keys[i])]
            target_key == strip(keys[Len(keys)])
            mods == cliclick_modifiers(modifiers)
        IN  IF mods # <<>>
            THEN <<"cliclick", " ", "kd:">> \o Join(mods, ",") \o <<" ">>
                 \o key_action(target_key) \o <<" ", "ku:">> \o Join(mods, ",")
            ELSE <<"cliclick", " ">> \o key_action(target_key)
    ELSE IF InSpecialKeys(lower(text))
         THEN <<"cliclick", " ", "kp:", special_keys_map[lower(text)[1]]>>
         ELSE <<"cliclick", " ", "t:">> \o text

\* the command line of one chunk of the type action
type_cmd(chunk) ==
    <<"cliclick", " ", "w:", ToString(TYPING_DELAY_MS), " ", "t:">>
    \o shlex_quote(chunk)

\* click_cmd: the click family's cliclick verbs
click_cmd ==
    [a \in {"left_click", "right_click", "middle_click", "double_click",
            "triple_click", "left_mouse_down", "left_mouse_up"} |->
        CASE a = "left_click"      -> "c:."
          [] a = "right_click"     -> "rc:."
          [] a = "middle_click"    -> "mc:."
          [] a = "double_click"    -> "dc:."
          [] a = "triple_click"    -> "tc:."
          [] a = "left_mouse_down" -> "md:."
          [] a = "left_mouse_up"   -> "mu:."]

\* direction_multiplier with the signs of the vertical directions exchanged
direction_multiplier_flipped(scroll_direction) ==
    CASE scroll_direction = "down"  -> 1
      [] scroll_direction = "up"    -> -1
      [] scroll_direction = "left"  -> 1
      [] scroll_direction = "right" -> -1
      [] OTHER                      -> -1

\* direction_multiplier.get(scroll_direction, -1)
direction_multiplier(scroll_direction) ==
    CASE scroll_direction = "down"  -> -1
      [] scroll_direction = "up"    -> 1
      [] scroll_direction = "left"  -> 1
      [] scroll_direction = "right" -> -1
      [] OTHER                      -> -1

\* the command line of the scroll action at the scaled position (x, y)
scroll_cmd(x, y, scroll_direction, scroll_amount) ==
    LET scroll_value == scroll_amount * direction_multiplier(scroll_direction)
    IN  IF scroll_direction \in {"up", "down"}
        THEN <<"cliclick", " ", "m:", ToString(x), ",", ToString(y), " ",
               "w:", ToString(scroll_value)>>
        ELSE <<"cliclick", " ", "m:", ToString(x), ",", ToString(y), " ",
               "kd:", "shift", " ", "w:", ToString(scroll_value), " ",
               "ku:", "shift">>

\* key_map.get(text.lower(), text.lower()) of the hold_key action
hold_key_name(text) ==
    LET t == lower(text)
    IN  IF t = <<"command">> THEN <<"cmd">> ELSE t

-----------------------------------------------------------------------------
(* State *)

VARIABLES
    held,             \* the desktop: the modifier keys that are down
    scaling_enabled,  \* ComputerTool._scaling_enabled
    width, height,    \* ComputerTool.width, .height: the probed real resolution
    pc,               \* per request: where its coroutine stands
    req,              \* per request: the arguments of the current __call__
    queue,            \* per request: command lines still to run before the capture
    results,          \* per request: ToolResults of the commands run so far
    capres,           \* per request: screenshot()'s `result` (of screencapture)
    file,             \* per request: the file at screenshot()'s `path`
    log,              \* per request: external commands and sleeps of this call, in order
    ret,              \* per request: what __call__ returned or raised
    tool,             \* per request: the MCP adapter serving it, or "direct"
    stage,            \* per request: which computer_tool call of the adapter runs
    reply,            \* per request: the adapter's reply text
    sc_pc, sc_in, sc_mid, sc_out   \* the scaler's round trip (SpecScale)

vars == <<held, scaling_enabled, width, height, pc, req, queue, results, capres, file,
          log, ret, tool, stage, reply, sc_pc, sc_in, sc_mid, sc_out>>
config == <<scaling_enabled, width, height>>
scaler == <<sc_pc, sc_in, sc_mid, sc_out>>
adapter == <<tool, stage, reply>>

Requests == 1..NumRequests

\* ToolResult(output, error, base64_image)
ToolResult(output, error, base64_image) ==
    [kind |-> "Result", output |-> output, error |-> error,
     base64_image |-> base64_image, msg |-> <<>>]
\* raise ToolError(message)
ToolError(message) ==
    [kind |-> "ToolError", output |-> None, error |-> None,
     base64_image |-> None, msg |-> message]
\* an exception that is no ToolError (int() of a malformed position)
ValueError ==
    [kind |-> "ValueError", output |-> None, error |-> None,
     base64_image |-> None, msg |-> <<>>]
NoRet ==
    [kind |-> "none", output |-> None, error |-> None,
     base64_image |-> None, msg |-> <<>>]

\* arguments
NoCoordinate == [t |-> "none", v |-> <<>>]
Absent == [some |-> FALSE, num |-> FALSE, v |-> 0]
Given(v) == [some |-> TRUE, num |-> TRUE, v |-> v]
NotANumber == [some |-> TRUE, num |-> FALSE, v |-> 0]
AbsentName == [some |-> FALSE, v |-> ""]
Name(v) == [some |-> TRUE, v |-> v]
NoKwargs ==
    [scroll_direction |-> AbsentName, scroll_amount |-> Absent, duration |-> Absent]
NoReq ==
    [action |-> "", text |-> None, coordinate |-> NoCoordinate, kwargs |-> NoKwargs]
\* kwargs.get(key, default)
kwargs_get(arg, default) == IF arg.some THEN arg.v ELSE default

\* one entry of the log: a command run() executed, with what it came back with,
\* or a sleep
Ran(cmd, o) == [kind |-> "run", cmd |-> cmd, exit |-> o.exit, out |-> o.out, err |-> o.err]
Slept(duration) ==
    [kind |-> "sleep", cmd |-> <<ToString(duration)>>, exit |-> 0,
     out |-> <<>>, err |-> <<>>]

\* path = output_dir / f"screenshot_{uuid4().hex}.png": a fresh name per call
path(r) == "/tmp/outputs/screenshot_" \o ToString(r) \o ".png"
screenshot_cmd(r) == <<"screencapture", " ", "-x", " ", path(r)>>
sips_cmd(r) ==
    <<"sips", " ", "-z", " ", ToString(SCALE_DESTINATION.height), " ",
      ToString(SCALE_DESTINATION.width), " ", path(r)>>

-----------------------------------------------------------------------------
(* ComputerTool.__call__ up to its first await: validation and translation *)

Raise(message) == [k |-> "raise", msg |-> message, cmds |-> <<>>, duration |-> 0]
Shell(cmd) == [k |-> "shell", msg |-> <<>>, cmds |-> <<cmd>>, duration |-> 0]
Type(cmds) == [k |-> "type", msg |-> <<>>, cmds |-> cmds, duration |-> 0]
Screenshot == [k |-> "screenshot", msg |-> <<>>, cmds |-> <<>>, duration |-> 0]
Wait(duration) == [k |-> "wait", msg |-> <<>>, cmds |-> <<>>, duration |-> duration]

\* isinstance(coordinate, list) and len(coordinate) == 2
IsPair(coordinate) == coordinate.t = "list" /\ Len(coordinate.v) = 2
\* all(isinstance(i, int) and i >= 0 for i in coordinate)
NonNegInts(coordinate) ==
    \A i \in 1..Len(coordinate.v) : coordinate.v[i] \in Int /\ coordinate.v[i] >= 0

\* the outcomes of self.scale_coordinates(ScalingSource.API, coordinate[0], coordinate[1])
\* where the code reaches that call; one placeholder where it does not
ScaledInputs(enabled, w, h, action, coordinate) ==
    IF /\ action \in {"mouse_move", "left_click_drag", "scroll"}
       /\ IsPair(coordinate) /\ NonNegInts(coordinate)
    THEN scale_coordinates(enabled, w, h, "api", coordinate.v[1], coordinate.v[2])
    ELSE {[ok |-> TRUE, x |-> 0, y |-> 0]}

OutOfBounds(coordinate) ==
    <<"Coordinates ", ToString(coordinate.v[1]), ", ", ToString(coordinate.v[2]),
      " are out of bounds for ", ToString(SCALE_DESTINATION.width), "x",
      ToString(SCALE_DESTINATION.height)>>

\* the branch for mouse_move and left_click_drag
DispatchMove(action, text, coordinate, scaled) ==
    IF coordinate.t = "none" THEN Raise(<<"coordinate is required for ", action>>)
    ELSE IF text.some THEN Raise(<<"text is not accepted for ", action>>)
    ELSE IF ~IsPair(coordinate) THEN Raise(<<"must be a tuple of length 2">>)
    ELSE IF ~NonNegInts(coordinate)
         THEN Raise(<<"must be a tuple of non-negative ints">>)
    ELSE IF ~scaled.ok THEN Raise(OutOfBounds(coordinate))
    ELSE Shell(<<"cliclick", " ", IF action = "mouse_move" THEN "m:" ELSE "dd:",
                 ToString(scaled.x), ",", ToString(scaled.y)>>)

\* the branch for key and type
DispatchText(action, text, coordinate) ==
    IF ~text.some THEN Raise(<<"text is required for ", action>>)
    ELSE IF coordinate.t # "none"
         THEN Raise(<<"coordinate is not accepted for ", action>>)
    ELSE IF action = "key" THEN Shell(key_cmd(text.s))
    ELSE LET cs == chunks(text.s, TYPING_GROUP_SIZE)
         IN  Type([i \in 1..Len(cs) |-> type_cmd(cs[i])])

\* the branch for the click family, screenshot and cursor_position
DispatchPlain(action, text, coordinate) ==
    IF text.some THEN Raise(<<"text is not accepted for ", action>>)
    ELSE IF coordinate.t # "none"
         THEN Raise(<<"coordinate is not accepted for ", action>>)
    ELSE IF action = "screenshot" THEN Screenshot
    ELSE IF action = "cursor_position" THEN Shell(<<"cliclick", " ", "p">>)
    ELSE Shell(<<"cliclick", " ", click_cmd[action]>>)

\* the branch for scroll
DispatchScroll(coordinate, kwargs, scaled) ==
    IF coordinate.t = "none"
    THEN Raise(<<"coordinate is required for scroll action">>)
    ELSE IF ~IsPair(coordinate) THEN Raise(<<"must be a tuple of length 2">>)
    ELSE IF ~NonNegInts(coordinate)
         THEN Raise(<<"must be a tuple of non-negative ints">>)
    ELSE IF ~scaled.ok THEN Raise(OutOfBounds(coordinate))
    ELSE Shell(scroll_cmd(scaled.x, scaled.y,
                          kwargs_get(kwargs.scroll_direction, "down"),
                          kwargs_get(kwargs.scroll_amount, 5)))

\* the branch for hold_key
DispatchHold(text) ==
    IF ~text.some THEN Raise(<<"text is required for hold_key action">>)
    ELSE Shell(<<"cliclick", " ", "kd:">> \o hold_key_name(text.s))

\* the branch for wait
DispatchWait(kwargs) ==
    LET duration == IF kwargs.duration.some THEN kwargs.duration ELSE Given(1)
    IN  IF ~duration.num \/ duration.v < 0
        THEN Raise(<<"duration must be a non-negative number">>)
        ELSE Wait(duration.v)

\* what __call__ decides before it first awaits
Dispatch(action, text, coordinate, kwargs, scaled) ==
    IF action \in {"mouse_move", "left_click_drag"}
    THEN DispatchMove(action, text, coordinate, scaled)
    ELSE IF action \in {"key", "type"} THEN DispatchText(action, text, coordinate)
    ELSE IF action \in DOMAIN click_cmd \cup {"screenshot", "cursor_position"}
    THEN DispatchPlain(action, text, coordinate)
    ELSE IF action = "scroll" THEN DispatchScroll(coordinate, kwargs, scaled)
    ELSE IF action = "hold_key" THEN DispatchHold(text)
    ELSE IF action = "wait" THEN DispatchWait(kwargs)
    ELSE Raise(<<"Invalid action: ", action>>)

\* the coroutine's position once Dispatch has decided
FirstPc(plan) ==
    CASE plan.k = "raise"      -> "done"
      [] plan.k = "shell"      -> "shell"
      [] plan.k = "type"       -> IF plan.cmds = <<>> THEN "capture" ELSE "type"
      [] plan.k = "screenshot" -> "capture"
      [] plan.k = "wait"       -> "wait"

\* computer_tool(action=..., text=..., coordinate=..., **kwargs) is entered by r
Enter(r, action, text, coordinate, kwargs) ==
    \E scaled \in ScaledInputs(scaling_enabled, width, height, action, coordinate) :
        LET plan == Dispatch(action, text, coordinate, kwargs, scaled)
        IN  /\ req' = [req EXCEPT ![r] = [action |-> action, text |-> text,
                                          coordinate |-> coordinate,
                                          kwargs |-> kwargs]]
            /\ pc' = [pc EXCEPT ![r] = FirstPc(plan)]
            /\ queue' = [queue EXCEPT ![r] = plan.cmds]
            /\ ret' = [ret EXCEPT ![r] =
                          IF plan.k = "raise" THEN ToolError(plan.msg) ELSE NoRet]
            /\ results' = [results EXCEPT ![r] = <<>>]
            /\ capres' = [capres EXCEPT ![r] = NoRet]
            /\ file' = [file EXCEPT ![r] = None]
            /\ log' = [log EXCEPT ![r] = <<>>]

-----------------------------------------------------------------------------
(* The environment: what run(), the capture and the resize may do *)

\* (exit status, stdout, stderr) of a command
RunOutcomes ==
    {[exit |-> 0, out |-> <<>>, err |-> <<>>],
     [exit |-> 0, out |-> <<"x">>, err |-> <<>>],
     [exit |-> 1, out |-> <<>>, err |-> <<"e">>],
     [exit |-> 1, out |-> <<"y">>, err |-> <<"f">>]}

\* the real resolutions a display is probed with
Resolutions == {<<1440, 900>>, <<2560, 1600>>}

\* what `cliclick p` prints: "x,y\n" for a cursor on the screen; or nothing
\* useful, when the driver fails
CursorOutcomes ==
    {[exit |-> 0, out |-> <<ToString(p[1]), ",", ToString(p[2]), "\n">>, err |-> <<>>] :
        p \in {<<0, 0>>, <<MaxProbe, 1>>, <<width \div 2, height \div 2>>,
               <<width - 1, height - 1>>}}
    \cup {o \in RunOutcomes : o.exit # 0}

\* the outcomes of the adapters' calls in the concurrent specification: the
\* command succeeds silently or fails with a message
QuietOutcomes == {o \in RunOutcomes : o.out = <<>>}

Outcomes(cmd, outs) == IF cmd = <<"cliclick", " ", "p">> THEN CursorOutcomes ELSE outs

\* the bytes screencapture writes, and the bytes sips rewrites them to
CapturedImages == {<<137, 80, 78, 71>>}
ResizedImages == {<<137, 80>>, <<255, 216, 255>>}

\* int(s): the value of a decimal literal, or "none" of it
IntLiterals == 0..(width + height)
IsInt(s) == Len(strip(s)) = 1 /\ \E n \in IntLiterals : ToString(n) = strip(s)[1]
int(s) == CHOOSE n \in IntLiterals : ToString(n) = strip(s)[1]

-----------------------------------------------------------------------------
(* How a call ends *)

\* screenshot()'s tail without the existence check: a Result either way
screenshot_return_unchecked(result, f) ==
    ToolResult(result.output, result.error,
               IF f.some THEN Some(b64encode(f.s)) ELSE None)

\* screenshot()'s tail: `if path.exists(): return result.replace(base64_image=...)`,
\* else `raise ToolError(f"Failed to take screenshot: {result.error}")`
screenshot_return(result, f) ==
    IF f.some
    THEN ToolResult(result.output, result.error, Some(b64encode(f.s)))
    ELSE ToolError(<<"Failed to take screenshot: ">> \o OrEmpty(result.error))

\* `except Exception as e: return ToolResult(output=None, error=str(e), base64_image=None)`
\* around the key action's shell call
key_except(outcome) ==
    IF outcome.kind = "Result" THEN outcome
    ELSE ToolResult(None, Some(outcome.msg), None)

\* call_return with the type action reporting its last chunk only
call_return_last(request, res, shot) ==
    LET action == request.action
        shelled == IF shot.kind = "Result"
                   THEN ToolResult(res[1].output, res[1].error, shot.base64_image)
                   ELSE shot
    IN  IF action = "screenshot" THEN shot
        ELSE IF action = "type" THEN
            IF shot.kind = "Result"
            THEN ToolResult(
                     Some(IF res = <<>> THEN <<>> ELSE OrEmpty(res[Len(res)].output)),
                     Some(IF res = <<>> THEN <<>> ELSE OrEmpty(res[Len(res)].error)),
                     shot.base64_image)
            ELSE shot
        ELSE IF action = "wait" THEN
            IF shot.kind = "Result"
            THEN ToolResult(
                     Some(<<"Waited for ",
                            ToString(kwargs_get(request.kwargs.duration, 1)),
                            " seconds">>),
                     None, shot.base64_image)
            ELSE shot
        ELSE IF action = "key" THEN key_except(shelled)
        ELSE shelled

\* what __call__ returns or raises once screenshot() has returned or raised `shot`
call_return(request, res, shot) ==
    LET action == request.action
        \* shell(cmd, take_screenshot=True): ToolResult(stdout, stderr, image)
        shelled == IF shot.kind = "Result"
                   THEN ToolResult(res[1].output, res[1].error, shot.base64_image)
                   ELSE shot
    IN  IF action = "screenshot" THEN shot
        ELSE IF action = "type" THEN
            IF shot.kind = "Result"
            THEN ToolResult(
                     Some(Concat([i \in 1..Len(res) |-> OrEmpty(res[i].output)])),
                     Some(Concat([i \in 1..Len(res) |-> OrEmpty(res[i].error)])),
                     shot.base64_image)
            ELSE shot
        ELSE IF action = "wait" THEN
            IF shot.kind = "Result"
            THEN ToolResult(
                     Some(<<"Waited for ",
                            ToString(kwargs_get(request.kwargs.duration, 1)),
                            " seconds">>),
                     None, shot.base64_image)
            ELSE shot
        ELSE IF action = "key" THEN key_except(shelled)
        ELSE shelled

\* the cursor_position branch after `cliclick p` returned `result`
cursor_return(enabled, w, h, result) ==
    IF OrEmpty(result.output) = <<>> THEN {result}
    ELSE LET parts == split(strip(result.output.s), ",")
         IN  IF Len(parts) # 2 \/ ~IsInt(parts[1]) \/ ~IsInt(parts[2])
             THEN {ValueError}
             ELSE {ToolResult(Some(<<"X=", ToString(v.x), ",Y=", ToString(v.y)>>),
                              result.error, result.base64_image) :
                     v \in scale_coordinates(enabled, w, h, "computer",
                                             int(parts[1]), int(parts[2]))}

-----------------------------------------------------------------------------
(* The desktop under the driver's key-down and key-up commands *)

\* the modifier keys the driver's kd: and ku: commands take
ModifierKeys == {"alt", "cmd", "ctrl", "fn", "shift"}

\* the modifiers a word kd:a,b or ku:a,b names
Named(word) == {word[i] : i \in 2..Len(word)} \cap ModifierKeys

\* the modifiers down once the driver has carried out one word of its command line
HeldAfterWord(word, down) ==
    IF word = <<>> THEN down
    ELSE IF word[1] = "kd:" THEN down \cup Named(word)
    ELSE IF word[1] = "ku:" THEN down \ Named(word)
    ELSE down

RECURSIVE HeldAfter(_, _)
\* the modifiers down once the driver has carried out the words, left to right
HeldAfter(words, down) ==
    IF words = <<>> THEN down
    ELSE HeldAfter(Tail(words), HeldAfterWord(Head(words), down))

\* what a run of the command can leave down: all of its words carried out when it
\* exits with 0, and any prefix of them when it fails
HeldOutcomes(cmd, exit, down) ==
    LET words == split(cmd, " ")
    IN  IF exit = 0 THEN {HeldAfter(words, down)}
        ELSE {HeldAfter(SubSeq(words, 1, k), down) : k \in 0..Len(words)}

-----------------------------------------------------------------------------
(* The awaits of a call, one action each *)

Logged(r, entry) == log' = [log EXCEPT ![r] = Append(@, entry)]

\* shell(cmd, take_screenshot=...): `_, stdout, stderr = await run(command)`;
\* for cursor_position the call ends here
RunShell(r, outs) ==
    /\ pc[r] = "shell"
    /\ \E o \in Outcomes(queue[r][1], outs) :
        LET result == ToolResult(Some(o.out), Some(o.err), None)
        IN  /\ Logged(r, Ran(queue[r][1], o))
            /\ held' \in HeldOutcomes(queue[r][1], o.exit, held)
            /\ queue' = [queue EXCEPT ![r] = <<>>]
            /\ results' = [results EXCEPT ![r] = <<result>>]
            /\ IF req[r].action = "cursor_position"
               THEN /\ \E v \in cursor_return(scaling_enabled, width, height, result) :
                          ret' = [ret EXCEPT ![r] = v]
                    /\ pc' = [pc EXCEPT ![r] = "done"]
               ELSE /\ pc' = [pc EXCEPT ![r] = "settle"]
                    /\ UNCHANGED ret
    /\ UNCHANGED <<config, req, capres, file, adapter, scaler>>

\* one round of the type loop: results.append(await self.shell(cmd, take_screenshot=False))
TypeChunk(r, outs) ==
    /\ pc[r] = "type"
    /\ \E o \in outs :
        /\ Logged(r, Ran(Head(queue[r]), o))
        /\ results' = [results EXCEPT ![r] =
                          Append(@, ToolResult(Some(o.out), Some(o.err), None))]
    /\ queue' = [queue EXCEPT ![r] = Tail(@)]
    /\ pc' = [pc EXCEPT ![r] = IF Tail(queue[r]) = <<>> THEN "capture" ELSE "type"]
    /\ UNCHANGED <<config, held, req, capres, file, ret, adapter, scaler>>

\* shell's `await asyncio.sleep(self._screenshot_delay)` before the screenshot
Settle(r) ==
    /\ pc[r] = "settle"
    /\ Logged(r, Slept(screenshot_delay))
    /\ pc' = [pc EXCEPT ![r] = "capture"]
    /\ UNCHANGED <<config, held, req, queue, results, capres, file, ret, adapter, scaler>>

\* the wait action's `await asyncio.sleep(duration)`
WaitSleep(r) ==
    /\ pc[r] = "wait"
    /\ Logged(r, Slept(kwargs_get(req[r].kwargs.duration, 1)))
    /\ pc' = [pc EXCEPT ![r] = "capture"]
    /\ UNCHANGED <<config, held, req, queue, results, capres, file, ret, adapter, scaler>>

\* screenshot(): `result = await self.shell(screenshot_cmd, take_screenshot=False)`;
\* with scaling disabled the existence check follows at once
Capture(r, outs) ==
    /\ pc[r] = "capture"
    /\ \E o \in outs, f \in {None} \cup {Some(b) : b \in CapturedImages} :
        LET result == ToolResult(Some(o.out), Some(o.err), None)
        IN  /\ Logged(r, Ran(screenshot_cmd(r), o))
            /\ capres' = [capres EXCEPT ![r] = result]
            /\ file' = [file EXCEPT ![r] = f]
            /\ IF scaling_enabled
               THEN /\ pc' = [pc EXCEPT ![r] = "resize"]
                    /\ UNCHANGED ret
               ELSE /\ pc' = [pc EXCEPT ![r] = "done"]
                    /\ ret' = [ret EXCEPT ![r] =
                          call_return(req[r], results[r], screenshot_return(result, f))]
    /\ UNCHANGED <<config, held, req, queue, results, adapter, scaler>>

\* screenshot(): `await self.shell(f"sips -z ...")`, its result dropped, then the
\* existence check.  sips rewrites the file when it succeeds and fails without one.
Resize(r) ==
    /\ pc[r] = "resize"
    /\ \E exit \in IF file[r].some THEN {0, 1} ELSE {1} :
       \E f \in IF exit = 0 THEN {Some(b) : b \in ResizedImages} ELSE {file[r]} :
        /\ Logged(r, Ran(sips_cmd(r), [exit |-> exit, out |-> <<>>, err |-> <<>>]))
        /\ file' = [file EXCEPT ![r] = f]
        /\ ret' = [ret EXCEPT ![r] =
              call_return(req[r], results[r], screenshot_return(capres[r], f))]
    /\ pc' = [pc EXCEPT ![r] = "done"]
    /\ UNCHANGED <<config, held, req, queue, results, capres, adapter, scaler>>


-----------------------------------------------------------------------------
(* Inputs *)

\* the sixteen actions of the Action literal, and one name outside it
Actions ==
    {"key", "type", "mouse_move", "left_click", "left_click_drag", "right_click",
     "middle_click", "double_click", "triple_click", "screenshot",
     "cursor_position", "scroll", "left_mouse_down", "left_mouse_up", "hold_key",
     "wait"}
ActionInputs == Actions \cup {"zoom"}

KeyTexts ==
    {<<"cmd", "+", "n">>, <<"cmd", "+", "c">>, <<"cmd", "+", "shift">>,
     <<"space">>, <<"Return">>, <<"n">>, <<"shift">>, <<"Command">>,
     <<"command", "+", "shift", "+", "N">>, <<"ctrl", "+", "alt", "+", "delete">>,
     <<"cmd", " ", "+", " ", "Tab">>, <<"shift", "+", "cmd", "+", "Left">>,
     <<"win", "+", "n">>, <<"Cmd", "+", "n">>, <<"cmd", "+", "win", "+", "n">>,
     <<"cmd", "+">>, <<"+">>}

\* the characters of typed text: two letters, a blank and a quote
TypeAlphabet == <<"a", "b", " ", "'">>
\* a text of length n whose i-th character depends on i
PatternText(n, k) == [i \in 1..n |-> TypeAlphabet[(((i * k) % 7) % 4) + 1]]
\* the lengths around the chunk boundaries, up to the bound
TextLens ==
    {0, 1, TYPING_GROUP_SIZE - 1, TYPING_GROUP_SIZE, TYPING_GROUP_SIZE + 1,
     2 * TYPING_GROUP_SIZE, 2 * TYPING_GROUP_SIZE + 1, MaxTextLen}
TypeTexts ==
    {PatternText(n, 1) : n \in TextLens}
    \cup {PatternText(n, 3) : n \in {m \in TextLens : m <= TYPING_GROUP_SIZE + 1}}
    \cup {[i \in 1..n |-> "a"] : n \in {2, TYPING_GROUP_SIZE + 2}}

HoldTexts == {<<"shift">>, <<"Command">>, <<"cmd">>, <<"n">>}

\* the texts an action is called with: every one it can tell apart, and for an
\* action that only tests text for presence, one
TextInputs(action) ==
    {None} \cup
    {Some(t) : t \in
        CASE action = "key"      -> KeyTexts \cup {PatternText(2, 1)}
          [] action = "type"     -> TypeTexts \cup {<<"n">>}
          [] action = "hold_key" -> HoldTexts
          [] OTHER               -> {<<"n">>}}

\* the coordinates an action is called with, likewise
CoordinateInputs(action) ==
    {NoCoordinate, [t |-> "list", v |-> <<10, 20>>]} \cup
    IF action \in {"mouse_move", "left_click_drag", "scroll"}
    THEN {[t |-> "list", v |-> v] :
            v \in {<<683, 384>>,
                   <<SCALE_DESTINATION.width, SCALE_DESTINATION.height>>,
                   <<SCALE_DESTINATION.width + 1, 5>>,
                   <<5, SCALE_DESTINATION.height + 1>>,
                   <<-1, 5>>, <<1, 2, 3>>}}
         \cup {[t |-> "tuple", v |-> <<10, 20>>]}
    ELSE {}

\* the extra parameters an action reads; the others ignore **kwargs
KwargsInputs(action) ==
    IF action = "scroll" THEN
        {[NoKwargs EXCEPT !.scroll_direction = d, !.scroll_amount = n] :
            d \in {AbsentName} \cup {Name(x) : x \in {"up", "down", "left", "right", "around"}},
            n \in {Absent, Given(3)}}
    ELSE IF action = "wait" THEN
        {[NoKwargs EXCEPT !.duration = d] :
            d \in {Absent, Given(0), Given(2), Given(-1), NotANumber}}
    ELSE {NoKwargs}

-----------------------------------------------------------------------------
(* One caller awaiting each call: the dispatcher called directly *)

NoTool == [name |-> "direct", x |-> 0, y |-> 0, text |-> <<>>]
NoReply == [sent |-> FALSE, ok |-> FALSE, text |-> <<>>]

\* await computer(action=..., text=..., coordinate=..., **kwargs)
Call(r) ==
    /\ pc[r] = "idle"
    /\ \E action \in ActionInputs :
       \E text \in TextInputs(action), coordinate \in CoordinateInputs(action),
          kwargs \in KwargsInputs(action) :
           Enter(r, action, text, coordinate, kwargs)
    /\ UNCHANGED <<config, held, adapter, scaler>>

\* the caller takes the result or the exception; the call's locals are gone
Return(r) ==
    /\ \/ pc[r] = "done" /\ tool[r].name = "direct"
       \/ pc[r] = "replied"
    /\ pc' = [pc EXCEPT ![r] = "idle"]
    /\ req' = [req EXCEPT ![r] = NoReq]
    /\ queue' = [queue EXCEPT ![r] = <<>>]
    /\ results' = [results EXCEPT ![r] = <<>>]
    /\ capres' = [capres EXCEPT ![r] = NoRet]
    /\ file' = [file EXCEPT ![r] = None]
    /\ log' = [log EXCEPT ![r] = <<>>]
    /\ ret' = [ret EXCEPT ![r] = NoRet]
    /\ tool' = [tool EXCEPT ![r] = NoTool]
    /\ stage' = [stage EXCEPT ![r] = 0]
    /\ reply' = [reply EXCEPT ![r] = NoReply]
    /\ UNCHANGED <<config, held, scaler>>

InitCalls ==
    /\ pc = [r \in Requests |-> "idle"]
    /\ req = [r \in Requests |-> NoReq]
    /\ queue = [r \in Requests |-> <<>>]
    /\ results = [r \in Requests |-> <<>>]
    /\ capres = [r \in Requests |-> NoRet]
    /\ file = [r \in Requests |-> None]
    /\ log = [r \in Requests |-> <<>>]
    /\ ret = [r \in Requests |-> NoRet]
    /\ tool = [r \in Requests |-> NoTool]
    /\ stage = [r \in Requests |-> 0]
    /\ reply = [r \in Requests |-> NoReply]
    /\ held = {}

InitScalerIdle ==
    /\ sc_pc = "off"
    /\ sc_in = <<0, 0>>
    /\ sc_mid = <<0, 0>>
    /\ sc_out = <<0, 0>>

Init ==
    /\ scaling_enabled \in BOOLEAN
    /\ \E res \in Resolutions : width = res[1] /\ height = res[2]
    /\ InitCalls
    /\ InitScalerIdle

Next ==
    \/ Call(1)
    \/ RunShell(1, RunOutcomes)
    \/ TypeChunk(1, RunOutcomes)
    \/ Settle(1)
    \/ WaitSleep(1)
    \/ Capture(1, RunOutcomes)
    \/ Resize(1)
    \/ Return(1)

Spec == Init /\ [][Next]_vars

-----------------------------------------------------------------------------
(* The MCP adapters of mcp_server.py, served as concurrent tasks of one loop *)

AdapterTools ==
    {"screenshot", "click", "click_at", "type_text", "press_key", "mouse_move",
     "right_click", "right_click_at", "double_click", "double_click_at"}
TwoCallTools == {"click_at", "right_click_at", "double_click_at"}

\* the arguments a tool is requested with
AdapterInputs(name) ==
    IF name \in TwoCallTools \cup {"mouse_move"}
    THEN {[name |-> name, x |-> c[1], y |-> c[2], text |-> <<>>] :
             c \in {<<10, 20>>, <<SCALE_DESTINATION.width + 1, 5>>}}
    ELSE IF name = "type_text"
    THEN {[name |-> name, x |-> 0, y |-> 0, text |-> t] :
             t \in {<<"a">>, PatternText(TYPING_GROUP_SIZE + 1, 1)}}
    ELSE IF name = "press_key"
    THEN {[name |-> name, x |-> 0, y |-> 0, text |-> t] :
             t \in {<<"cmd", "+", "n">>, <<"space">>}}
    ELSE {[name |-> name, x |-> 0, y |-> 0, text |-> <<>>]}

\* the adapter's first computer_tool call
first_call(t) ==
    CASE t.name = "screenshot" ->
            [action |-> "screenshot", text |-> None, coordinate |-> NoCoordinate]
      [] t.name = "click" ->
            [action |-> "left_click", text |-> None, coordinate |-> NoCoordinate]
      [] t.name \in TwoCallTools \cup {"mouse_move"} ->
            [action |-> "mouse_move", text |-> None,
             coordinate |-> [t |-> "list", v |-> <<t.x, t.y>>]]
      [] t.name = "type_text" ->
            [action |-> "type", text |-> Some(t.text), coordinate |-> NoCoordinate]
      [] t.name = "press_key" ->
            [action |-> "key", text |-> Some(t.text), coordinate |-> NoCoordinate]
      [] t.name \in {"right_click", "double_click"} ->
            [action |-> t.name, text |-> None, coordinate |-> NoCoordinate]

\* the action of the second call of click_at, right_click_at, double_click_at
second_action(name) ==
    CASE name = "click_at"        -> "left_click"
      [] name = "right_click_at"  -> "right_click"
      [] name = "double_click_at" -> "double_click"

At(t) == <<"(", ToString(t.x), ", ", ToString(t.y), ")">>

\* the text before result.error in the adapter's `if result.error:` reply
error_prefix(t, n) ==
    CASE t.name = "screenshot"   -> <<"Error taking screenshot: ">>
      [] t.name = "click"        -> <<"Error clicking: ">>
      [] t.name = "type_text"    -> <<"Error typing text: ">>
      [] t.name = "press_key"    -> <<"Error pressing key '">> \o t.text \o <<"': ">>
      [] t.name = "mouse_move"   -> <<"Error moving mouse to ">> \o At(t) \o <<": ">>
      [] t.name = "right_click"  -> <<"Error right-clicking: ">>
      [] t.name = "double_click" -> <<"Error double-clicking: ">>
      [] t.name \in TwoCallTools /\ n = 1 -> <<"Error moving to ">> \o At(t) \o <<": ">>
      [] t.name = "click_at"        -> <<"Error clicking at ">> \o At(t) \o <<": ">>
      [] t.name = "right_click_at"  -> <<"Error right-clicking at ">> \o At(t) \o <<": ">>
      [] t.name = "double_click_at" -> <<"Error double-clicking at ">> \o At(t) \o <<": ">>

\* the text before str(e) in the adapter's `except Exception as e:` reply
except_prefix(t) ==
    CASE t.name = "screenshot"                     -> <<"Error taking screenshot: ">>
      [] t.name \in {"click", "click_at"}          -> <<"Error clicking: ">>
      [] t.name = "type_text"                      -> <<"Error typing text: ">>
      [] t.name = "press_key"                      -> <<"Error pressing key: ">>
      [] t.name = "mouse_move"                     -> <<"Error moving mouse: ">>
      [] t.name \in {"right_click", "right_click_at"}   -> <<"Error right-clicking: ">>
      [] t.name \in {"double_click", "double_click_at"} -> <<"Error double-clicking: ">>

\* the adapter's reply to a result without an error
success_text(t, result) ==
    CASE t.name = "screenshot" ->
            IF result.base64_image.some /\ result.base64_image.s # <<>>
            THEN <<"Screenshot captured successfully. Base64 image data: ",
                   "{result.base64_image[:100]}", "...">>
            ELSE <<"Screenshot captured but no image data returned">>
      [] t.name = "click" -> <<"Successfully clicked at current cursor position">>
      [] t.name = "click_at" -> <<"Successfully clicked at coordinates ">> \o At(t)
      [] t.name = "type_text" -> <<"Successfully typed: ">> \o t.text
      [] t.name = "press_key" -> <<"Successfully pressed key: ">> \o t.text
      [] t.name = "mouse_move" -> <<"Successfully moved mouse to coordinates ">> \o At(t)
      [] t.name = "right_click" ->
            <<"Successfully right-clicked at current cursor position">>
      [] t.name = "right_click_at" ->
            <<"Successfully right-clicked at coordinates ">> \o At(t)
      [] t.name = "double_click" ->
            <<"Successfully double-clicked at current cursor position">>
      [] t.name = "double_click_at" ->
            <<"Successfully double-clicked at coordinates ">> \o At(t)

Replied(r, ok, text) ==
    /\ reply' = [reply EXCEPT ![r] = [sent |-> TRUE, ok |-> ok, text |-> text]]
    /\ pc' = [pc EXCEPT ![r] = "replied"]
    /\ UNCHANGED <<req, queue, results, capres, file, log, ret, tool, stage>>

\* a tool request arrives: the handler runs up to the first await of its first call
ToolRequest(r) ==
    /\ pc[r] = "idle"
    /\ \E name \in AdapterTools : \E t \in AdapterInputs(name) :
        /\ tool' = [tool EXCEPT ![r] = t]
        /\ Enter(r, first_call(t).action, first_call(t).text,
                 first_call(t).coordinate, NoKwargs)
    /\ stage' = [stage EXCEPT ![r] = 1]
    /\ UNCHANGED <<config, held, reply, scaler>>

\* the handler after a computer_tool call came back: the except clause, the
\* `if result.error:` reply, the second call, or the success reply
AdapterStep(r) ==
    /\ pc[r] = "done"
    /\ tool[r].name # "direct"
    /\ IF ret[r].kind # "Result"
       THEN Replied(r, FALSE, except_prefix(tool[r]) \o ret[r].msg)
       ELSE IF OrEmpty(ret[r].error) # <<>>
       THEN Replied(r, FALSE, error_prefix(tool[r], stage[r]) \o ret[r].error.s)
       ELSE IF tool[r].name \in TwoCallTools /\ stage[r] = 1
       THEN /\ Enter(r, second_action(tool[r].name), None, NoCoordinate, NoKwargs)
            /\ stage' = [stage EXCEPT ![r] = 2]
            /\ UNCHANGED <<tool, reply>>
       ELSE Replied(r, TRUE, success_text(tool[r], ret[r]))
    /\ UNCHANGED <<config, held, scaler>>

\* the server as built: the class default for scaling, one probed resolution
InitConc ==
    /\ scaling_enabled = TRUE
    /\ width = 1440 /\ height = 900
    /\ InitCalls
    /\ InitScalerIdle

NextConc ==
    \E r \in Requests :
        \/ ToolRequest(r)
        \/ RunShell(r, QuietOutcomes)
        \/ TypeChunk(r, QuietOutcomes)
        \/ Settle(r)
        \/ Capture(r, QuietOutcomes)
        \/ Resize(r)
        \/ AdapterStep(r)
        \/ Return(r)

SpecConc == InitConc /\ [][NextConc]_vars

-----------------------------------------------------------------------------
(* The coordinate scaler on its own: a virtual coordinate scaled to the real *)
(* screen and back                                                          *)

\* real resolutions, below, at and above the virtual one
ScaleResolutions ==
    Resolutions \cup
    {<<400, 300>>, <<455, 256>>, <<456, 257>>, <<1024, 768>>, <<1280, 800>>,
     <<SCALE_DESTINATION.width, SCALE_DESTINATION.height>>}

\* every column with two rows, every row with two columns, one step past the bounds
ScaleCoordinates ==
    {<<x, y>> : x \in 0..(SCALE_DESTINATION.width + 1),
                y \in {5, SCALE_DESTINATION.height}}
    \cup {<<x, y>> : x \in {5, SCALE_DESTINATION.width},
                     y \in 0..(SCALE_DESTINATION.height + 1)}

InitScale ==
    /\ scaling_enabled \in BOOLEAN
    /\ \E res \in ScaleResolutions : width = res[1] /\ height = res[2]
    /\ InitCalls
    /\ sc_pc = "in"
    /\ sc_in \in ScaleCoordinates
    /\ sc_mid = <<0, 0>>
    /\ sc_out = <<0, 0>>

\* scale_coordinates(ScalingSource.API, x, y)
ToReal ==
    /\ sc_pc = "in"
    /\ \E v \in scale_coordinates(scaling_enabled, width, height, "api",
                                  sc_in[1], sc_in[2]) :
        IF v.ok
        THEN sc_mid' = <<v.x, v.y>> /\ sc_pc' = "real"
        ELSE sc_mid' = sc_mid /\ sc_pc' = "rejected"
    /\ UNCHANGED <<config, held, pc, req, queue, results, capres, file, log, ret,
                   adapter, sc_in, sc_out>>

\* scale_coordinates(ScalingSource.COMPUTER, x, y) of the scaled point
ToVirtual ==
    /\ sc_pc = "real"
    /\ \E v \in scale_coordinates(scaling_enabled, width, height, "computer",
                                  sc_mid[1], sc_mid[2]) :
        sc_out' = <<v.x, v.y>>
    /\ sc_pc' = "back"
    /\ UNCHANGED <<config, held, pc, req, queue, results, capres, file, log, ret,
                   adapter, sc_in, sc_mid>>

NextScale == ToReal \/ ToVirtual

SpecScale == InitScale /\ [][NextScale]_vars

-----------------------------------------------------------------------------
(* Properties *)

\* r is inside a call of the dispatcher, or the call has ended and not been collected
InCall(r) == pc[r] \notin {"idle", "replied"}
\* the call of r has returned or raised
Ended(r) == pc[r] = "done"
\* the log entry is a run of the named program
RunOf(e, prog) == e.kind = "run" /\ e.cmd # <<>> /\ e.cmd[1] = prog

\* the grammar table of the specification: the actions for which text, and
\* those for which coordinate, is forbidden
TextForbidden ==
    {"mouse_move", "left_click_drag", "left_click", "right_click", "double_click",
     "triple_click", "middle_click", "left_mouse_down", "left_mouse_up",
     "screenshot", "cursor_position", "scroll", "wait"}
CoordinateForbidden ==
    {"key", "type", "left_click", "right_click", "double_click", "triple_click",
     "middle_click", "left_mouse_down", "left_mouse_up", "screenshot",
     "cursor_position", "hold_key", "wait"}
SuppliesForbidden(request) ==
    \/ request.action \in TextForbidden /\ request.text.some
    \/ request.action \in CoordinateForbidden /\ request.coordinate.t # "none"

\* C1: a call that supplies a parameter the grammar table forbids for its action
\* fails with ToolError, and nothing external (no command, no sleep) has run.
C1_ForbiddenParameterRejected ==
    \A r \in Requests :
        InCall(r) /\ req[r].action \in Actions /\ SuppliesForbidden(req[r])
        => /\ Ended(r)
           /\ ret[r].kind = "ToolError"
           /\ log[r] = <<>>

\* r has run a step of its action on the desktop and has more steps to run
MidAction(r) ==
    /\ pc[r] \in {"shell", "type", "settle", "wait", "capture", "resize"}
    /\ log[r] # <<>>

\* C2: two requests never overlap on the desktop: no request is between two
\* steps of its action while another one is between two steps of its own.
C2_NoOverlap ==
    \A r1, r2 \in Requests : r1 # r2 => ~(MidAction(r1) /\ MidAction(r2))

\* C3: when an external command of the call exited with a nonzero status, the
\* call fails with an error instead of returning a Result.
C3_NonzeroExitRaises ==
    \A r \in Requests :
        /\ Ended(r)
        /\ \E i \in 1..Len(log[r]) : log[r][i].kind = "run" /\ log[r][i].exit # 0
        => ret[r].kind = "ToolError"

RECURSIVE b64decode(_)
\* the bytes a base64 text stands for (alphabet indices, 64 for the pad)
b64decode(t) ==
    IF Len(t) < 4 THEN <<>>
    ELSE LET b1 == t[1] * 4 + t[2] \div 16
             b2 == (t[2] % 16) * 16 + t[3] \div 4
             b3 == (t[3] % 4) * 64 + t[4]
         IN  IF t[3] = 64 THEN <<b1>>
             ELSE IF t[4] = 64 THEN <<b1, b2>>
             ELSE <<b1, b2, b3>> \o b64decode(SubSeq(t, 5, Len(t)))

\* the screenshot action of r was accepted and its capture has come to its end
ScreenshotEnded(r) ==
    Ended(r) /\ req[r].action = "screenshot" /\ log[r] # <<>>

\* C4: the screenshot action raises ToolError when the capture left no file at
\* the path, and returns a Result only when the file exists: its image then
\* decodes to the bytes of the file.
C4_ScreenshotFileOrError ==
    \A r \in Requests :
        ScreenshotEnded(r)
        => IF file[r].some
           THEN /\ ret[r].kind = "Result"
                /\ ret[r].base64_image.some
                /\ ret[r].base64_image.s # <<>>
                /\ b64decode(ret[r].base64_image.s) = file[r].s
           ELSE ret[r].kind = "ToolError"

\* C4: a screenshot call whose capture produced no file, and which raised
C4_Witness ==
    \E r \in Requests :
        ScreenshotEnded(r) /\ ~file[r].some /\ ret[r].kind = "ToolError"

\* the capture of r's call ran and left no file: screenshot() raised ToolError
ScreenshotRaised(r) ==
    /\ Ended(r)
    /\ \E i \in 1..Len(log[r]) : RunOf(log[r][i], "screencapture")
    /\ ~file[r].some

\* C5: a structured error raised while an action executes comes out of the
\* dispatcher as that error: when the trailing screenshot raised ToolError, the
\* call raises ToolError and returns no Result.
C5_ErrorsPropagate ==
    \A r \in Requests : ScreenshotRaised(r) => ret[r].kind = "ToolError"

Abs(n) == IF n < 0 THEN -n ELSE n

\* the round trip of an in-bounds virtual coordinate has come back, scaling enabled
RoundTripDone ==
    /\ sc_pc = "back"
    /\ scaling_enabled
    /\ sc_in[1] <= SCALE_DESTINATION.width
    /\ sc_in[2] <= SCALE_DESTINATION.height

\* C6 as stated: with scaling enabled, whatever the real resolution, a virtual
\* coordinate within the bounds comes back from toReal then toVirtual within one
\* pixel in each component.
C6_RoundTripAnyResolution ==
    RoundTripDone
    => Abs(sc_out[1] - sc_in[1]) <= 1 /\ Abs(sc_out[2] - sc_in[2]) <= 1

\* C6 amended: the same, in each component whose real extent is more than a
\* third of the virtual one (a scaling factor below 3).
C6_RoundTripFactorBelow3 ==
    RoundTripDone
    => /\ SCALE_DESTINATION.width < 3 * width => Abs(sc_out[1] - sc_in[1]) <= 1
       /\ SCALE_DESTINATION.height < 3 * height => Abs(sc_out[2] - sc_in[2]) <= 1

\* C6: a round trip on a screen narrower than the virtual one, still within a
\* factor of 3, that comes back one pixel off
C6_Witness ==
    /\ RoundTripDone
    /\ width < SCALE_DESTINATION.width
    /\ SCALE_DESTINATION.width < 3 * width
    /\ Abs(sc_out[1] - sc_in[1]) = 1

\* r called mouse_move, left_click_drag or scroll with a pair of non-negative
\* ints that lies beyond the virtual resolution
BeyondVirtual(r) ==
    /\ InCall(r)
    /\ req[r].action \in {"mouse_move", "left_click_drag", "scroll"}
    /\ IsPair(req[r].coordinate) /\ NonNegInts(req[r].coordinate)
    /\ \/ req[r].coordinate.v[1] > SCALE_DESTINATION.width
       \/ req[r].coordinate.v[2] > SCALE_DESTINATION.height

RejectedBeforeAnyCommand(r) ==
    Ended(r) /\ ret[r].kind = "ToolError" /\ log[r] = <<>>

\* C7 as stated: whether or not scaling is enabled, a coordinate beyond the
\* virtual resolution makes mouse_move, left_click_drag and scroll fail with
\* ToolError before any external command.
C7_BeyondVirtualRejectedAlways ==
    \A r \in Requests : BeyondVirtual(r) => RejectedBeforeAnyCommand(r)

\* C7 amended: with scaling enabled, such a coordinate makes the three actions
\* fail with ToolError before any external command; the error is the
\* out-of-bounds one unless text was supplied to mouse_move or left_click_drag.
C7_BeyondVirtualRejectedWhenScaling ==
    \A r \in Requests :
        scaling_enabled /\ BeyondVirtual(r)
        => /\ RejectedBeforeAnyCommand(r)
           /\ (req[r].action = "scroll" \/ ~req[r].text.some)
              => ret[r].msg[1] = "Coordinates "

\* C7: a scroll beyond the virtual width, rejected as out of bounds
C7_Witness ==
    \E r \in Requests :
        /\ scaling_enabled /\ BeyondVirtual(r)
        /\ req[r].action = "scroll"
        /\ RejectedBeforeAnyCommand(r)
        /\ ret[r].msg[1] = "Coordinates "

\* a POSIX shell reading one more character of a command line: blanks separate
\* words outside quotes, '...' and "..." group characters and are removed
ShRead(st, c) ==
    IF st.mode = "plain" THEN
        IF c = " " THEN
            [mode |-> "plain", cur |-> <<>>, started |-> FALSE,
             words |-> IF st.started THEN Append(st.words, st.cur) ELSE st.words]
        ELSE IF c = "'" THEN [st EXCEPT !.mode = "single", !.started = TRUE]
        ELSE IF c = "\"" THEN [st EXCEPT !.mode = "double", !.started = TRUE]
        ELSE [st EXCEPT !.cur = Append(@, c), !.started = TRUE]
    ELSE IF (st.mode = "single" /\ c = "'") \/ (st.mode = "double" /\ c = "\"")
    THEN [st EXCEPT !.mode = "plain"]
    ELSE [st EXCEPT !.cur = Append(@, c)]

RECURSIVE ShScan(_, _, _, _)
\* the shell's state after the characters lo..hi of s, read from state st
ShScan(s, lo, hi, st) ==
    IF lo > hi THEN st
    ELSE IF lo = hi THEN ShRead(st, s[lo])
    ELSE LET left == ShScan(s, lo, (lo + hi) \div 2, st)
         IN  \* the left half is read before the right half is begun
             IF left.mode \in {"plain", "single", "double"}
             THEN ShScan(s, (lo + hi) \div 2 + 1, hi, left)
             ELSE left

\* the words the shell makes of a command line
ShWords(cmd) ==
    LET st == ShScan(cmd, 1, Len(cmd),
                     [mode |-> "plain", cur |-> <<>>, started |-> FALSE,
                      words |-> <<>>])
    IN  IF st.started THEN Append(st.words, st.cur) ELSE st.words

\* the log entry is a typing command with the 12 ms delay: cliclick w:12 t:<text>
IsTyping(e) ==
    /\ RunOf(e, "cliclick")
    /\ LET words == ShWords(e.cmd)
       IN  /\ Len(words) = 3
           /\ words[2] = <<"w:", "12">>
           /\ words[3] # <<>> /\ words[3][1] = "t:"
\* the text it types
Typed(e) == Tail(ShWords(e.cmd)[3])

\* r is in an accepted call of the type action
Typing(r) ==
    /\ InCall(r)
    /\ req[r].action = "type"
    /\ req[r].text.some
    /\ req[r].coordinate.t = "none"
\* ceil(N / 50) for the text of the call
NumChunks(r) == (Len(req[r].text.s) + 49) \div 50

\* C8: the type action sends ceil(N/50) typing commands, each with the 12 ms
\* delay, each of 50 characters but a shorter last one, together the text; one
\* capture follows the last of them, none comes between them.  The log keeps
\* the order of the call's steps: while the call runs it is read by program
\* names, and once the call has ended each typing command is read as the shell
\* reads it.
C8_TypeChunksThenOneCapture ==
    \A r \in Requests :
        Typing(r) =>
        LET L == log[r]
            n == NumChunks(r)
        IN  /\ Len(L) <= n + 2
            /\ \A i \in 1..Len(L) :
                /\ i <= n => RunOf(L[i], "cliclick")
                /\ i = n + 1 => RunOf(L[i], "screencapture")
                /\ i = n + 2 => RunOf(L[i], "sips")
            /\ Ended(r) =>
                /\ Len(L) >= n + 1
                /\ \A i \in 1..n :
                    LET words == ShWords(L[i].cmd)
                    IN  /\ Len(words) = 3
                        /\ words[2] = <<"w:", "12">>
                        /\ words[3] # <<>> /\ words[3][1] = "t:"
                        /\ IF i < n THEN Len(Tail(words[3])) = 50
                           ELSE Len(Tail(words[3])) \in 1..50
                /\ Concat([i \in 1..n |-> Typed(L[i])]) = req[r].text.s

\* C8: a type call of 120 characters that ended after chunks of 50, 50 and 20
\* and one capture
C8_Witness ==
    \E r \in Requests :
        /\ Typing(r) /\ Ended(r)
        /\ Len(req[r].text.s) = 120
        /\ Len(log[r]) >= 4
        /\ Len(Typed(log[r][1])) = 50
        /\ Len(Typed(log[r][2])) = 50
        /\ Len(Typed(log[r][3])) = 20
        /\ RunOf(log[r][4], "screencapture")

\* C9: a chunk whose typing command fails does not stop the type action: all
\* chunks are sent in order, the call returns a Result whenever the screenshot
\* file exists, and its output and error are the chunks' stdout and stderr
\* concatenated in order.
C9_TypeChunkFailureGoesOn ==
    \A r \in Requests :
        Typing(r) /\ Ended(r) =>
        LET L == log[r]
            n == NumChunks(r)
        IN  /\ Len(L) > n
            /\ \A i \in 1..n : IsTyping(L[i])
            /\ file[r].some => ret[r].kind = "Result"
            /\ ret[r].kind = "Result" =>
                /\ ret[r].output = Some(Concat([i \in 1..n |-> L[i].out]))
                /\ ret[r].error = Some(Concat([i \in 1..n |-> L[i].err]))

\* C9: a type call of three chunks whose first chunk failed and whose later
\* chunks were sent and reported all the same
C9_Witness ==
    \E r \in Requests :
        /\ Typing(r) /\ Ended(r)
        /\ NumChunks(r) = 3
        /\ log[r][1].exit # 0 /\ log[r][1].err = <<"e">>
        /\ log[r][2].exit = 0 /\ log[r][2].out = <<"x">>
        /\ log[r][3].err = <<"f">>
        /\ ret[r].kind = "Result"
        /\ ret[r].output = Some(<<"x", "y">>)
        /\ ret[r].error = Some(<<"e", "f">>)

\* the modifier names of the key grammar, as cliclick names them
ModifierName(token) ==
    CASE token \in {<<"cmd">>, <<"command">>} -> "cmd"
      [] token = <<"ctrl">>  -> "ctrl"
      [] token = <<"alt">>   -> "alt"
      [] token = <<"shift">> -> "shift"
      [] OTHER               -> ""
IsModifier(token) == ModifierName(token) # ""

\* r is in an accepted call of the key action on a combination
KeyCombination(r) ==
    /\ InCall(r)
    /\ req[r].action = "key"
    /\ req[r].text.some /\ Contains(req[r].text.s, "+")
    /\ req[r].coordinate.t = "none"
    /\ log[r] # <<>>

\* C10: the key action on a '+'-separated text issues one command: key-down of
\* the modifiers among the tokens before the last, in their order, the key
\* action of the last token, key-up of the same modifiers; every modifier it
\* presses it releases.  Without a modifier among those tokens the command is
\* the key action alone.
C10_KeyCombinationBracketed ==
    \A r \in Requests :
        KeyCombination(r) =>
        LET tokens == split(req[r].text.s, "+")
            before == [i \in 1..(Len(tokens) - 1) |-> strip(tokens[i])]
            target == strip(tokens[Len(tokens)])
            mods == SelectSeq(before, IsModifier)
            names == Join([i \in 1..Len(mods) |-> ModifierName(mods[i])], ",")
            words == split(log[r][1].cmd, " ")
            act == words[Len(words) - (IF mods = <<>> THEN 0 ELSE 1)]
        IN  /\ RunOf(log[r][1], "cliclick")
            /\ Len(words) = IF mods = <<>> THEN 2 ELSE 4
            /\ mods # <<>> =>
                /\ words[2] = <<"kd:">> \o names
                /\ words[4] = <<"ku:">> \o names
            /\ \/ act = <<"t:">> \o target
               \/ /\ Len(act) = 2 /\ act[1] = "kp:"
                  /\ Len(target) = 1
                  /\ LowerAtom(target[1]) \in DOMAIN special_keys_map
            /\ req[r].text.s = <<"cmd", "+", "n">> =>
                log[r][1].cmd = <<"cliclick", " ", "kd:", "cmd", " ", "t:", "n",
                                  " ", "ku:", "cmd">>

\* C10: the key action on "cmd+n" has run its command: down cmd, type n, up cmd
C10_Witness ==
    \E r \in Requests :
        /\ KeyCombination(r)
        /\ req[r].text.s = <<"cmd", "+", "n">>
        /\ split(log[r][1].cmd, " ") =
              <<<<"cliclick">>, <<"kd:", "cmd">>, <<"t:", "n">>, <<"ku:", "cmd">>>>

\* every token of the '+'-separated text is a modifier name
ModifierOnly(text) ==
    LET tokens == split(text, "+")
    IN  /\ Len(tokens) >= 2
        /\ \A i \in 1..Len(tokens) : IsModifier(strip(tokens[i]))

\* C11: the key action on a modifier-only combination (every token a modifier
\* name, as in "cmd+shift") issues key-down and key-up of those modifiers around
\* an empty key action: its one command has a kd: and a ku: word naming all the
\* tokens, and no word that presses a named key (kp:) or types a literal (t:).
C11_ModifierOnlyEmptyAction ==
    \A r \in Requests :
        KeyCombination(r) /\ ModifierOnly(req[r].text.s) =>
        LET tokens == split(req[r].text.s, "+")
            names == Join([i \in 1..Len(tokens) |-> ModifierName(strip(tokens[i]))], ",")
            words == split(log[r][1].cmd, " ")
        IN  /\ RunOf(log[r][1], "cliclick")
            /\ \A i \in 1..Len(words) :
                  words[i] = <<>> \/ words[i][1] \notin {"t:", "kp:"}
            /\ \E i, j \in 1..Len(words) :
                  /\ i < j
                  /\ words[i] = <<"kd:">> \o names
                  /\ words[j] = <<"ku:">> \o names

\* the actions whose row of the grammar table says "screenshot after"
ScreenshotAfter == Actions \ {"screenshot", "cursor_position"}

\* the call of r has returned a Result
ReturnedResult(r) == Ended(r) /\ ret[r].kind = "Result"

\* C12: a call of a "screenshot after" action that returns a Result has run, in
\* this order, the action's command(s) or wait, then the settle delay of
\* screenshot_delay seconds, then the screen capture: the capture is in the log
\* once, the entry right before it is the settle sleep, and the action's own
\* steps (at least one) come before that.
C12_SettleBeforeCapture ==
    \A r \in Requests :
        ReturnedResult(r) /\ req[r].action \in ScreenshotAfter =>
        \E i \in 1..Len(log[r]) :
            /\ RunOf(log[r][i], "screencapture")
            /\ \A j \in 1..Len(log[r]) : RunOf(log[r][j], "screencapture") => j = i
            /\ i >= 3
            /\ log[r][i - 1] = Slept(screenshot_delay)
            /\ \A j \in 1..(i - 2) :
                  \/ RunOf(log[r][j], "cliclick")
                  \/ req[r].action = "wait" /\ log[r][j].kind = "sleep"

\* r is in an accepted call of the scroll action whose command has run
Scrolled(r) ==
    /\ InCall(r)
    /\ req[r].action = "scroll"
    /\ log[r] # <<>>

\* the words "m:x,y" of a move to a position toReal can give for the coordinate
MovesTo(coordinate) ==
    {<<"m:", ToString(p.x), ",", ToString(p.y)>> :
        p \in {q \in scale_coordinates(scaling_enabled, width, height, "api",
                                       coordinate[1], coordinate[2]) : q.ok}}

\* C13: the scroll action with direction "up" and amount n > 0 runs one command
\* that moves to the scaled coordinate and then scrolls by the positive value n;
\* with direction "down", or with no direction given, it scrolls by -n, the
\* negative value of equal magnitude.  The amount is 5 when none is given.
C13_ScrollSign ==
    \A r \in Requests :
        Scrolled(r) =>
        LET direction == kwargs_get(req[r].kwargs.scroll_direction, "down")
            n == kwargs_get(req[r].kwargs.scroll_amount, 5)
            words == split(log[r][1].cmd, " ")
        IN  n > 0 /\ direction \in {"up", "down"} =>
            /\ RunOf(log[r][1], "cliclick")
            /\ Len(words) = 3
            /\ words[2] \in MovesTo(req[r].coordinate.v)
            /\ \E value \in (0 - n)..n :
                  /\ words[3] = <<"w:", ToString(value)>>
                  /\ direction = "up" => value = n /\ value > 0
                  /\ direction = "down" => value = 0 - n /\ value < 0

\* C13: a scroll up by 3 at (683, 384) has run its command, which ends in w:3
C13_Witness ==
    \E r \in Requests :
        /\ Scrolled(r)
        /\ req[r].kwargs.scroll_direction = Name("up")
        /\ req[r].kwargs.scroll_amount = Given(3)
        /\ req[r].coordinate.v = <<683, 384>>
        /\ split(log[r][1].cmd, " ")[3] = <<"w:", "3">>

-----------------------------------------------------------------------------
(* One caller awaiting each call, on a desktop where every command succeeds *)

\* the outcomes of a command that exits with 0
OkOutcomes == {o \in RunOutcomes : o.exit = 0}

NextOk ==
    \/ Call(1)
    \/ RunShell(1, OkOutcomes)
    \/ TypeChunk(1, OkOutcomes)
    \/ Settle(1)
    \/ WaitSleep(1)
    \/ Capture(1, OkOutcomes)
    \/ Resize(1)
    \/ Return(1)

SpecOk == Init /\ [][NextOk]_vars

-----------------------------------------------------------------------------

\* this step is a run of the driver by r that exits with 0
DriverRan(r) ==
    /\ Len(log'[r]) = Len(log[r]) + 1
    /\ RunOf(log'[r][Len(log'[r])], "cliclick")
    /\ log'[r][Len(log'[r])].exit = 0

=============================================================================
